---------------------------- MODULE Spec2Model ----------------------------
(***************************************************************************)
(* Polygon visualizer (poly-visualizer): the parser/validator, the         *)
(* viewport model and the interaction controller of the PolygonVisualizer  *)
(* component, src/src/App.tsx, with the calculateBounds of the two older   *)
(* variants (src/unnamed/part_000, src/App.tsx).                           *)
(*                                                                         *)
(* Numbers.  A JavaScript number is modelled as an exact rational or one   *)
(* of Infinity, -Infinity, NaN.  Coordinates typed by the user are whole   *)
(* numbers or the literal 1e999, which is beyond the largest double and    *)
(* reads as Infinity; the other non-finite values are the ones the code    *)
(* itself brings in (the +-Infinity seeds of calculateBounds) and what     *)
(* IEEE arithmetic makes of them.  The handlers compute in exact           *)
(* arithmetic; the zoom steps and the moves of a drag are computed again   *)
(* in IEEE 754 doubles, rounding included, where rounding is the matter.   *)
(*                                                                         *)
(* Values.  A JavaScript value is a record [t, v]: t is its type tag,      *)
(* v its content (a number, a string, a sequence of values for an array,   *)
(* a function from own property names to values for an object).           *)
(*                                                                         *)
(* Text.  A text is a sequence of tokens, a coordinate field a sequence of *)
(* characters.                                                             *)
(***************************************************************************)
EXTENDS Integers, Sequences, FiniteSets, TLC

(***************************************************************************)
(* Bounds of the exploration.                                              *)
(***************************************************************************)
\* Polygon coordinates of the bounds computations range over -1..MaxCoord.
MaxCoord == 1
\* The corners of the rectangles padded in doubles range over
\* -1..MaxPadCoord.
MaxPadCoord == 2
\* The view is panned by at most MaxPanSteps pointer steps (at zoom 1) from
\* the position of the last fit.
MaxPanSteps == 2

(***************************************************************************)
(* Numbers: exact rationals extended with Infinity, -Infinity and NaN.     *)
(***************************************************************************)
Abs(i) == IF i < 0 THEN 0 - i ELSE i

RECURSIVE GCD(_, _)
GCD(a, b) == IF b = 0 THEN a ELSE GCD(b, a % b)

\* The rational n/d (d # 0) in lowest terms with positive denominator.
Fin(n, d) ==
    LET g == GCD(Abs(n), Abs(d))
        s == IF d < 0 THEN 0 - 1 ELSE 1
    IN  [k |-> "fin", n |-> (s * n) \div g, d |-> (s * d) \div g]

PInf == [k |-> "pinf", n |-> 0, d |-> 1]
NInf == [k |-> "ninf", n |-> 0, d |-> 1]
NaN  == [k |-> "nan", n |-> 0, d |-> 1]

IsFinite(a) == a.k = "fin"
IsNaN(a) == a.k = "nan"

\* -1, 0 or 1; the sign of a non-NaN number.
Sgn(a) ==
    CASE a.k = "pinf" -> 1
      [] a.k = "ninf" -> 0 - 1
      [] OTHER -> IF a.n > 0 THEN 1 ELSE IF a.n < 0 THEN 0 - 1 ELSE 0

XNeg(a) ==
    CASE a.k = "fin" -> Fin(0 - a.n, a.d)
      [] a.k = "pinf" -> NInf
      [] a.k = "ninf" -> PInf
      [] OTHER -> NaN

\* a + b
XAdd(a, b) ==
    CASE IsNaN(a) \/ IsNaN(b) -> NaN
      [] IsFinite(a) /\ IsFinite(b) -> Fin(a.n * b.d + b.n * a.d, a.d * b.d)
      [] IsFinite(a) -> b
      [] IsFinite(b) -> a
      [] OTHER -> IF a.k = b.k THEN a ELSE NaN

\* a - b
XSub(a, b) == XAdd(a, XNeg(b))

\* a * b
XMul(a, b) ==
    CASE IsNaN(a) \/ IsNaN(b) -> NaN
      [] IsFinite(a) /\ IsFinite(b) -> Fin(a.n * b.n, a.d * b.d)
      [] OTHER -> IF Sgn(a) * Sgn(b) = 0 THEN NaN
                  ELSE IF Sgn(a) * Sgn(b) > 0 THEN PInf ELSE NInf

\* a / b, for a finite divisor b # 0 (zoom and the surface size are never 0).
XDiv(a, b) ==
    CASE IsNaN(a) \/ IsNaN(b) -> NaN
      [] IsFinite(a) -> Fin(a.n * b.d, a.d * b.n)
      [] OTHER -> IF Sgn(a) * Sgn(b) > 0 THEN PInf ELSE NInf

\* a < b
XLt(a, b) ==
    CASE IsNaN(a) \/ IsNaN(b) -> FALSE
      [] IsFinite(a) /\ IsFinite(b) -> a.n * b.d < b.n * a.d
      [] OTHER -> a.k # b.k /\ (a.k = "ninf" \/ b.k = "pinf")

\* a === b
XEq(a, b) == ~IsNaN(a) /\ ~IsNaN(b) /\ a = b

\* a <= b
XLe(a, b) == XLt(a, b) \/ XEq(a, b)

\* Math.min(a, b) and Math.max(a, b)
MathMin(a, b) == IF IsNaN(a) \/ IsNaN(b) THEN NaN ELSE IF XLt(b, a) THEN b ELSE a
MathMax(a, b) == IF IsNaN(a) \/ IsNaN(b) THEN NaN ELSE IF XLt(a, b) THEN b ELSE a

Int2X(i) == Fin(i, 1)

(***************************************************************************)
(* IEEE 754 doubles, for the arithmetic whose rounding matters: the zoom   *)
(* steps and the pan of a drag.  A double is [s, m, e], the number         *)
(* s * m * 2^e with sign s (1 or -1) and a mantissa m of exactly 53 bits   *)
(* (or 0 with e = 0).  The mantissa is a natural number written as its     *)
(* digits in base 2^15, the lowest first, without leading zero digits.     *)
(* Every operation rounds to nearest, ties to even.  The values stay far   *)
(* from the largest and the smallest double: overflow and subnormal        *)
(* numbers are not modelled here.                                          *)
(***************************************************************************)
LimbBase == 2^15

RECURSIVE BTrim(_)
BTrim(a) ==
    IF a # <<>> /\ a[Len(a)] = 0 THEN BTrim(SubSeq(a, 1, Len(a) - 1)) ELSE a

\* The natural number n (below 2^31) as digits.
RECURSIVE BFromInt(_)
BFromInt(n) ==
    IF n = 0 THEN <<>> ELSE <<n % LimbBase>> \o BFromInt(n \div LimbBase)

\* a + b + c, c a carry of 0 or 1.
RECURSIVE BAddC(_, _, _)
BAddC(a, b, c) ==
    IF a = <<>> /\ b = <<>> THEN (IF c = 0 THEN <<>> ELSE <<c>>)
    ELSE LET x == (IF a = <<>> THEN 0 ELSE Head(a))
                  + (IF b = <<>> THEN 0 ELSE Head(b)) + c
         IN  <<x % LimbBase>>
             \o BAddC(IF a = <<>> THEN a ELSE Tail(a),
                      IF b = <<>> THEN b ELSE Tail(b), x \div LimbBase)

BAdd(a, b) == BAddC(a, b, 0)

\* a - b - c for a >= b + c, c a borrow of 0 or 1; leading zeros are kept.
RECURSIVE BSubC(_, _, _)
BSubC(a, b, c) ==
    IF a = <<>> THEN <<>>
    ELSE LET x == Head(a) - (IF b = <<>> THEN 0 ELSE Head(b)) - c
         IN  <<IF x < 0 THEN x + LimbBase ELSE x>>
             \o BSubC(Tail(a), IF b = <<>> THEN b ELSE Tail(b),
                      IF x < 0 THEN 1 ELSE 0)

BSub(a, b) == BTrim(BSubC(a, b, 0))

\* -1, 0 or 1 as a < b, a = b or a > b.
RECURSIVE BCmpFrom(_, _, _)
BCmpFrom(a, b, i) ==
    IF i = 0 THEN 0
    ELSE IF a[i] < b[i] THEN 0 - 1
    ELSE IF a[i] > b[i] THEN 1
    ELSE BCmpFrom(a, b, i - 1)

BCmp(a, b) ==
    IF Len(a) < Len(b) THEN 0 - 1
    ELSE IF Len(a) > Len(b) THEN 1
    ELSE BCmpFrom(a, b, Len(a))

\* a * k + c for a digit k and a carry c below the base.
RECURSIVE BMulSmall(_, _, _)
BMulSmall(a, k, c) ==
    IF a = <<>> THEN (IF c = 0 THEN <<>> ELSE <<c>>)
    ELSE LET x == Head(a) * k + c
         IN  <<x % LimbBase>> \o BMulSmall(Tail(a), k, x \div LimbBase)

RECURSIVE BMul(_, _)
BMul(a, b) ==
    IF a = <<>> \/ b = <<>> THEN <<>>
    ELSE BTrim(BAdd(BMulSmall(a, Head(b), 0), <<0>> \o BMul(a, Tail(b))))

\* The quotient and the remainder of a by a digit k > 0.
RECURSIVE BDivModSmall(_, _)
BDivModSmall(a, k) ==
    IF a = <<>> THEN [q |-> <<>>, r |-> 0]
    ELSE LET hi == BDivModSmall(Tail(a), k)
             x == hi.r * LimbBase + Head(a)
         IN  [q |-> BTrim(<<x \div k>> \o hi.q), r |-> x % k]

\* n zero digits.
RECURSIVE BZeros(_)
BZeros(n) == IF n = 0 THEN <<>> ELSE <<0>> \o BZeros(n - 1)

\* a * 2^n and the whole part of a / 2^n.
BShl(a, n) ==
    IF a = <<>> THEN a
    ELSE BZeros(n \div 15) \o BMulSmall(a, 2^(n % 15), 0)

BShr(a, n) ==
    IF Len(a) <= n \div 15 THEN <<>>
    ELSE BDivModSmall(SubSeq(a, n \div 15 + 1, Len(a)), 2^(n % 15)).q

\* The number of bits of a digit and of a number.
RECURSIVE BitLenInt(_)
BitLenInt(n) == IF n = 0 THEN 0 ELSE 1 + BitLenInt(n \div 2)

BBitLen(a) ==
    IF a = <<>> THEN 0 ELSE 15 * (Len(a) - 1) + BitLenInt(a[Len(a)])

BIsOdd(a) == a # <<>> /\ Head(a) % 2 = 1

\* One step of the long division by b > 0: q and r are the quotient and the
\* remainder of the bits taken so far, bit is taken next.
BDivModBit(b, bit, q, r) ==
    LET r2 == BAdd(BShl(r, 1), BFromInt(bit))
    IN  IF BCmp(r2, b) >= 0
        THEN [q |-> BAdd(BShl(q, 1), <<1>>), r |-> BSub(r2, b)]
        ELSE [q |-> BShl(q, 1), r |-> r2]

\* Long division by b > 0, one bit at a time: st holds the quotient and the
\* remainder of the bits taken so far, bit i of the digit d and the bits
\* below it are taken next. (The step is drawn from a set of one element,
\* which has it computed once, before the next step is taken.)
RECURSIVE BDivModBits(_, _, _, _)
BDivModBits(d, b, i, st) ==
    IF i < 0 THEN st
    ELSE CHOOSE res \in { BDivModBits(d, b, i - 1, nx) :
                            nx \in { BDivModBit(b, (d \div 2^i) % 2,
                                                 st.q, st.r) } } : TRUE

\* Long division of a by b > 0, digit j of a and the digits below it still
\* to come.
RECURSIVE BDivModFrom(_, _, _, _)
BDivModFrom(a, b, j, st) ==
    IF j = 0 THEN st
    ELSE CHOOSE res \in { BDivModFrom(a, b, j - 1, nx) :
                            nx \in { BDivModBits(a[j], b, 14, st) } } : TRUE

\* The quotient and the remainder of a by b > 0.
BDivMod(a, b) ==
    IF Len(b) = 1
    THEN LET dm == BDivModSmall(a, b[1]) IN [q |-> dm.q, r |-> BFromInt(dm.r)]
    ELSE BDivModFrom(a, b, Len(a), [q |-> <<>>, r |-> <<>>])

DZero == [s |-> 1, m |-> <<>>, e |-> 0]

\* The double of the mantissa m1 of 53 or 54 bits.
DNormal(sign, m1, e) ==
    IF BBitLen(m1) = 54 THEN [s |-> sign, m |-> BShr(m1, 1), e |-> e + 1]
    ELSE [s |-> sign, m |-> m1, e |-> e]

\* Whether q rounds up to keep + 1, keep being its bits from bit t on:
\* the bits below are more than a half, or a half and keep is odd; sticky
\* tells that digits beyond q were cut.
RoundsUp(q, keep, t, sticky) ==
    CHOOSE up \in
        { c > 0 \/ (c = 0 /\ (sticky \/ BIsOdd(keep))) :
            c \in { BCmp(BSub(q, BShl(keep, t)), BShl(<<1>>, t - 1)) } } : TRUE

\* The double of the quotient dm.q of 55 bits or more, cut to 53 bits.
DRoundKeep(sign, dm, e, t) ==
    CHOOSE res \in
        { DNormal(sign, m1, e + t) :
            m1 \in { IF RoundsUp(dm.q, keep, t, dm.r # <<>>)
                     THEN BAdd(keep, <<1>>) ELSE keep :
                     keep \in { BShr(dm.q, t) } } } : TRUE

DRoundQuotient(sign, dm, e) ==
    CHOOSE res \in
        { DRoundKeep(sign, dm, e, t) : t \in { BBitLen(dm.q) - 53 } } : TRUE

\* The shift of num that gives num / den 55 bits or more.
DShift(num, den) ==
    IF 55 + BBitLen(den) > BBitLen(num)
    THEN 55 + BBitLen(den) - BBitLen(num) ELSE 0

DRoundShifted(sign, num, den, e, sh) ==
    CHOOSE res \in
        { DRoundQuotient(sign, dm, e - sh) :
            dm \in { BDivMod(BShl(num, sh), den) } } : TRUE

\* The double nearest to sign * (num / den) * 2^e, ties to even; num and den
\* are natural numbers, den > 0. (Every intermediate value is drawn from a
\* set of one element, which has it computed once.)
DRound(sign, num, den, e) ==
    IF num = <<>> THEN DZero
    ELSE CHOOSE res \in
             { DRoundShifted(sign, num, den, e, sh) :
                 sh \in { DShift(num, den) } } : TRUE

\* The double of a whole number.
DInt(i) == DRound(IF i < 0 THEN 0 - 1 ELSE 1, BFromInt(Abs(i)), <<1>>, 0)

DNeg(a) == IF a.m = <<>> THEN a ELSE [a EXCEPT !.s = 0 - a.s]

\* a * b and a / b (b # 0).
DMul(a, b) == DRound(a.s * b.s, BMul(a.m, b.m), <<1>>, a.e + b.e)
DDiv(a, b) == DRound(a.s * b.s, a.m, b.m, a.e - b.e)

\* a + b and a - b.
DAdd(a, b) ==
    IF a.m = <<>> THEN b
    ELSE IF b.m = <<>> THEN a
    ELSE LET e == IF a.e < b.e THEN a.e ELSE b.e
             am == BShl(a.m, a.e - e)
             bm == BShl(b.m, b.e - e)
         IN  IF a.s = b.s THEN DRound(a.s, BAdd(am, bm), <<1>>, e)
             ELSE IF BCmp(am, bm) >= 0 THEN DRound(a.s, BSub(am, bm), <<1>>, e)
             ELSE DRound(b.s, BSub(bm, am), <<1>>, e)

DSub(a, b) == DAdd(a, DNeg(b))

\* a < b, a <= b, Math.min(a, b), Math.max(a, b).
DLt(a, b) == LET d == DSub(a, b) IN d.m # <<>> /\ d.s < 0
DLe(a, b) == ~DLt(b, a)
DMin(a, b) == IF DLt(b, a) THEN b ELSE a
DMax(a, b) == IF DLt(a, b) THEN b ELSE a

(***************************************************************************)
(* JavaScript values.                                                      *)
(***************************************************************************)
Null == [t |-> "null", v |-> 0]
\* The number i, a whole number, and the number Infinity.
Num(i) == [t |-> "number", v |-> Int2X(i)]
Infinity == [t |-> "number", v |-> PInf]
Str(s) == [t |-> "string", v |-> s]
Arr(s) == [t |-> "array", v |-> s]
Obj(f) == [t |-> "object", v |-> f]

\* {x: a, z: b}
Point(a, b) == Obj([x |-> Num(a), z |-> Num(b)])

\* Array.isArray(val)
IsArray(val) == val.t = "array"

\* typeof val === 'number'
IsNumber(val) == val.t = "number"

\* !val, for the values the component tests this way (arrays and objects are
\* truthy, null is falsy)
Falsy(val) == val.t = "null"

(***************************************************************************)
(* Texts and JSON.parse.                                                   *)
(***************************************************************************)
\* A token of a text: whitespace ("ws"), a punctuation mark ("punct", s),
\* a string literal ("string", s), the literal of a whole number
\* ("number", n), the number literal 1e999, the literal null ("null"), or a
\* bare word that is no JSON ("word", s).
Tok(k, s, n) == [k |-> k, s |-> s, n |-> n]
WS == Tok("ws", " ", 0)
P(s) == Tok("punct", s, 0)
S(s) == Tok("string", s, 0)
N(n) == Tok("number", "", n)
Huge == Tok("number", "1e999", 0)
NullLit == Tok("null", "null", 0)
Word(s) == Tok("word", s, 0)

IsP(tok, s) == tok.k = "punct" /\ tok.s = s

\* text.trim(): the text without its leading and trailing whitespace.
RECURSIVE TrimLeft(_)
TrimLeft(text) ==
    IF text # <<>> /\ Head(text).k = "ws" THEN TrimLeft(Tail(text)) ELSE text

RECURSIVE TrimRight(_)
TrimRight(text) ==
    IF text # <<>> /\ text[Len(text)].k = "ws"
    THEN TrimRight(SubSeq(text, 1, Len(text) - 1))
    ELSE text

Trim(text) == TrimRight(TrimLeft(text))

\* JSON ignores whitespace between tokens.
SkipWS(text) == SelectSeq(text, LAMBDA tok : tok.k # "ws")

\* The number a number literal stands for: 1e999 is beyond the largest
\* double and reads as Infinity.
NumberOf(tok) == IF tok.s = "1e999" THEN Infinity ELSE Num(tok.n)

\* The result of parsing one value at position i of ts: whether it parsed,
\* the value, and the position after it.
PFail == [ok |-> FALSE, v |-> Null, nx |-> 0]
POk(val, nx) == [ok |-> TRUE, v |-> val, nx |-> nx]

\* f with own property key set to val (a repeated key keeps the last value).
WithProp(f, key, val) ==
    [q \in (DOMAIN f) \cup {key} |-> IF q = key THEN val ELSE f[q]]

RECURSIVE ParseValue(_, _), ParseElements(_, _, _), ParseMembers(_, _, _)
ParseValue(ts, i) ==
    IF i > Len(ts) THEN PFail
    ELSE CASE ts[i].k = "number" -> POk(NumberOf(ts[i]), i + 1)
           [] ts[i].k = "string" -> POk(Str(ts[i].s), i + 1)
           [] ts[i].k = "null" -> POk(Null, i + 1)
           [] IsP(ts[i], "[") ->
                IF i + 1 <= Len(ts) /\ IsP(ts[i + 1], "]")
                THEN POk(Arr(<<>>), i + 2)
                ELSE ParseElements(ts, i + 1, <<>>)
           [] IsP(ts[i], "{") ->
                IF i + 1 <= Len(ts) /\ IsP(ts[i + 1], "}")
                THEN POk(Obj(<<>>), i + 2)
                ELSE ParseMembers(ts, i + 1, <<>>)
           [] OTHER -> PFail

\* The elements of an array from position i on, acc the ones before.
ParseElements(ts, i, acc) ==
    LET r == ParseValue(ts, i) IN
    IF ~r.ok \/ r.nx > Len(ts) THEN PFail
    ELSE IF IsP(ts[r.nx], ",") THEN ParseElements(ts, r.nx + 1, Append(acc, r.v))
    ELSE IF IsP(ts[r.nx], "]") THEN POk(Arr(Append(acc, r.v)), r.nx + 1)
    ELSE PFail

\* The members of an object from position i on, acc the ones before.
ParseMembers(ts, i, acc) ==
    IF i + 1 > Len(ts) \/ ts[i].k # "string" \/ ~IsP(ts[i + 1], ":") THEN PFail
    ELSE LET r == ParseValue(ts, i + 2) IN
         IF ~r.ok \/ r.nx > Len(ts) THEN PFail
         ELSE IF IsP(ts[r.nx], ",")
              THEN ParseMembers(ts, r.nx + 1, WithProp(acc, ts[i].s, r.v))
         ELSE IF IsP(ts[r.nx], "}")
              THEN POk(Obj(WithProp(acc, ts[i].s, r.v)), r.nx + 1)
         ELSE PFail

\* JSON.parse(text): [ok, v] with the value, or ok = FALSE for a SyntaxError.
JSONParse(text) ==
    LET ts == SkipWS(text)
        r == ParseValue(ts, 1)
    IN  IF r.ok /\ r.nx = Len(ts) + 1
        THEN [ok |-> TRUE, v |-> r.v]
        ELSE [ok |-> FALSE, v |-> Null]

\* The message of the SyntaxError JSON.parse throws.
SyntaxErrorMessage == "Unexpected token"


(***************************************************************************)
(* parsePolygons.                                                          *)
(***************************************************************************)
\* The outcome of a call that returns a value or throws an Error.
Returned(val) == [ok |-> TRUE, v |-> val, message |-> ""]
Thrown(msg) == [ok |-> FALSE, v |-> Null, message |-> msg]

\* point.hasOwnProperty(key): "true", "false", or "TypeError" when the call
\* itself throws: point is null, or point has an own property named
\* hasOwnProperty, which hides the method and is no function.
HasOwnProperty(point, key) ==
    CASE point.t = "null" -> "TypeError"
      [] point.t = "object" ->
           IF "hasOwnProperty" \in DOMAIN point.v THEN "TypeError"
           ELSE IF key \in DOMAIN point.v THEN "true" ELSE "false"
      [] OTHER -> "false"

\* The message of the TypeError of point.hasOwnProperty(...).
TypeErrorMessage(point) ==
    IF point.t = "null"
    THEN "Cannot read properties of null (reading 'hasOwnProperty')"
    ELSE "point.hasOwnProperty is not a function"

\* The checks on point j of polygon i: the message of the error thrown,
\* or "" when the point passes.
CheckPoint(point, i, j) ==
    LET hx == HasOwnProperty(point, "x")
        hz == IF hx = "true" THEN HasOwnProperty(point, "z") ELSE hx
    IN  IF hx = "TypeError" THEN TypeErrorMessage(point)
        ELSE IF hx = "false" \/ hz = "false"
        THEN "Point " \o ToString(j) \o " in polygon " \o ToString(i)
                 \o " must have x and z properties"
        ELSE IF ~IsNumber(point.v["x"]) \/ ~IsNumber(point.v["z"])
        THEN "Point " \o ToString(j) \o " in polygon " \o ToString(i)
                 \o " must have numeric x and z values"
        ELSE ""

\* polygon.forEach((point, j) => ...) from index j on: the first error.
RECURSIVE CheckPoints(_, _, _)
CheckPoints(polygon, i, j) ==
    IF j >= Len(polygon.v) THEN ""
    ELSE LET e == CheckPoint(polygon.v[j + 1], i, j) IN
         IF e # "" THEN e ELSE CheckPoints(polygon, i, j + 1)

\* parsed.forEach((polygon, i) => ...) from index i on: the first error.
RECURSIVE CheckPolygons(_, _)
CheckPolygons(parsed, i) ==
    IF i >= Len(parsed.v) THEN ""
    ELSE IF ~IsArray(parsed.v[i + 1])
         THEN "Polygon " \o ToString(i) \o " must be an array"
         ELSE LET e == CheckPoints(parsed.v[i + 1], i, 0) IN
              IF e # "" THEN e ELSE CheckPolygons(parsed, i + 1)

parsePolygons(text) ==
    LET r == JSONParse(text)
        inner == IF ~r.ok THEN SyntaxErrorMessage
                 ELSE IF ~IsArray(r.v) THEN "Input must be an array"
                 ELSE CheckPolygons(r.v, 0)
    IN  IF inner = "" THEN Returned(r.v)
        ELSE Thrown("Invalid JSON format: " \o inner)

(***************************************************************************)
(* calculateBounds and the fit of the view box.                            *)
(***************************************************************************)
Rect(a, b, c, d) == [minX |-> a, minY |-> b, maxX |-> c, maxY |-> d]

\* The rectangle extended to take in the point (px, py).
Extend(r, px, py) ==
    Rect(MathMin(r.minX, px), MathMin(r.minY, py),
         MathMax(r.maxX, px), MathMax(r.maxY, py))

\* point.x and the vertical coordinate of a point, whose z is mapped to Y
\* directly (flip = FALSE) or negated (flip = TRUE).
PointX(point) == point.v["x"].v
PointY(point, flip) ==
    IF flip THEN XNeg(point.v["z"].v) ELSE point.v["z"].v

\* polygon.forEach((point) => ...): the rectangle after points j.. of polygon.
RECURSIVE FoldPoints(_, _, _, _)
FoldPoints(r, polygon, j, flip) ==
    IF j > Len(polygon.v) THEN r
    ELSE FoldPoints(Extend(r, PointX(polygon.v[j]), PointY(polygon.v[j], flip)),
                    polygon, j + 1, flip)

\* polygons.forEach((polygon) => ...): the rectangle after polygons i.. .
RECURSIVE FoldPolygons(_, _, _, _)
FoldPolygons(r, polys, i, flip) ==
    IF i > Len(polys.v) THEN r
    ELSE FoldPolygons(FoldPoints(r, polys.v[i], 1, flip), polys, i + 1, flip)

\* The margin added on every side of a single point.
SinglePointMargin == 5

\* ExpandSinglePoint that widens the rectangle and leaves its height 0.
ExpandSinglePoint_WidthOnly(r) ==
    IF XEq(r.minX, r.maxX) /\ XEq(r.minY, r.maxY)
    THEN [r EXCEPT !.minX = XSub(r.minX, Int2X(SinglePointMargin)),
                   !.maxX = XAdd(r.maxX, Int2X(SinglePointMargin))]
    ELSE r

\* "Handle case where we only have a single point".
ExpandSinglePoint(r) ==
    IF XEq(r.minX, r.maxX) /\ XEq(r.minY, r.maxY)
    THEN Rect(XSub(r.minX, Int2X(SinglePointMargin)),
              XSub(r.minY, Int2X(SinglePointMargin)),
              XAdd(r.maxX, Int2X(SinglePointMargin)),
              XAdd(r.maxY, Int2X(SinglePointMargin)))
    ELSE r

\* "Add padding": a tenth of the larger side, on every side.
AddPadding(r) ==
    LET padding == XMul(MathMax(XSub(r.maxX, r.minX), XSub(r.maxY, r.minY)),
                        Fin(1, 10))
    IN  Rect(XSub(r.minX, padding), XSub(r.minY, padding),
             XAdd(r.maxX, padding), XAdd(r.maxY, padding))

DefaultBounds == Rect(Int2X(0), Int2X(0), Int2X(100), Int2X(100))

\* calculateBounds of the variants with a custom point; flip tells how z is
\* mapped to Y.
BoundsWith(polys, cp, flip) ==
    IF Len(polys.v) = 0 /\ Falsy(cp) THEN DefaultBounds
    ELSE LET seed == Rect(PInf, PInf, NInf, NInf)
             r1 == FoldPolygons(seed, polys, 1, flip)
             r2 == IF Falsy(cp) THEN r1
                   ELSE Extend(r1, PointX(cp), PointY(cp, flip))
         IN  AddPadding(ExpandSinglePoint(r2))

\* calculateBounds that pads the default rectangle like any other.
calculateBounds_PadsDefault(polys, cp) ==
    IF Len(polys.v) = 0 /\ Falsy(cp) THEN AddPadding(DefaultBounds)
    ELSE BoundsWith(polys, cp, FALSE)

\* calculateBounds of src/src/App.tsx: z maps directly to Y.
calculateBounds(polys, cp) == BoundsWith(polys, cp, FALSE)

\* calculateBounds of src/unnamed/part_000: z is flipped to Y.
calculateBoundsFlipped(polys, cp) == BoundsWith(polys, cp, TRUE)

\* The view box updateViewBox stores for (polys, cp).
FitOf(bounds) ==
    [minX |-> bounds.minX, minY |-> bounds.minY,
     width |-> XSub(bounds.maxX, bounds.minX),
     height |-> XSub(bounds.maxY, bounds.minY)]


(***************************************************************************)
(* The coordinate fields and parseFloat.                                   *)
(***************************************************************************)
\* The value NaN; isNaN(val).
NaNValue == [t |-> "NaN", v |-> 0]
IsNaNValue(val) == val.t = "NaN"

Digits == {"0", "1", "2", "3", "4", "5", "6", "7", "8", "9"}
DigitValue(c) ==
    CASE c = "0" -> 0 [] c = "1" -> 1 [] c = "2" -> 2 [] c = "3" -> 3
      [] c = "4" -> 4 [] c = "5" -> 5 [] c = "6" -> 6 [] c = "7" -> 7
      [] c = "8" -> 8 [] c = "9" -> 9

\* str.trim() of a sequence of characters.
RECURSIVE TrimChars(_)
TrimChars(str) ==
    IF str # <<>> /\ Head(str) = " " THEN TrimChars(Tail(str))
    ELSE IF str # <<>> /\ str[Len(str)] = " "
    THEN TrimChars(SubSeq(str, 1, Len(str) - 1))
    ELSE str

\* The longest run of digits at the head of str: [n, len], its value and length.
RECURSIVE DigitRun(_, _, _)
DigitRun(str, n, len) ==
    IF str # <<>> /\ Head(str) \in Digits
    THEN DigitRun(Tail(str), 10 * n + DigitValue(Head(str)), len + 1)
    ELSE [n |-> n, len |-> len]

\* The word parseFloat reads as infinity.
InfinityWord == <<"I", "n", "f", "i", "n", "i", "t", "y">>

StartsWith(str, word) ==
    Len(str) >= Len(word) /\ SubSeq(str, 1, Len(word)) = word

Drop(str, k) == SubSeq(str, k + 1, Len(str))

\* The exponent part at the head of str, "e" or "E", a sign or none, and a
\* run of digits: [n, len], its value and length, len 0 when there is none.
ExponentPart(str) ==
    IF str = <<>> \/ Head(str) \notin {"e", "E"} THEN [n |-> 0, len |-> 0]
    ELSE LET rest == Tail(str)
             signed == rest # <<>> /\ Head(rest) \in {"-", "+"}
             run == DigitRun(IF signed THEN Tail(rest) ELSE rest, 0, 0)
         IN  IF run.len = 0 THEN [n |-> 0, len |-> 0]
             ELSE [n |-> IF signed /\ Head(rest) = "-" THEN 0 - run.n
                         ELSE run.n,
                   len |-> 1 + (IF signed THEN 1 ELSE 0) + run.len]

\* n * 10^exp as a double: 0 for n = 0, infinity beyond the largest double
\* (1.8 * 10^308), the exact value for the exponents -8 .. 8.
Scaled(n, exp) ==
    IF n = 0 THEN Int2X(0)
    ELSE IF exp > 308 THEN PInf
    ELSE IF exp >= 0 THEN Int2X(n * 10^exp)
    ELSE Fin(n, 10^(0 - exp))

\* The longest numeric literal at the head of str, a sign or none read
\* before: [len, v], the characters read and the value, len 0 for none.
\* Literals are whole numbers with or without an exponent, and Infinity.
LiteralAt(str) ==
    IF StartsWith(str, InfinityWord)
    THEN [len |-> Len(InfinityWord), v |-> PInf]
    ELSE LET run == DigitRun(str, 0, 0)
             ex == ExponentPart(Drop(str, run.len))
         IN  IF run.len = 0 THEN [len |-> 0, v |-> NaN]
             ELSE [len |-> run.len + ex.len, v |-> Scaled(run.n, ex.n)]

\* parseFloat(str): leading whitespace is skipped, a sign and the longest
\* literal are read, whatever follows is ignored; NaN when there is no
\* literal.
parseFloat(str) ==
    LET t == TrimChars(str)
        neg == t # <<>> /\ Head(t) = "-"
        signed == t # <<>> /\ Head(t) \in {"-", "+"}
        lit == LiteralAt(IF signed THEN Tail(t) ELSE t)
    IN  IF lit.len = 0 THEN NaNValue
        ELSE [t |-> "number", v |-> IF neg THEN XNeg(lit.v) ELSE lit.v]

(***************************************************************************)
(* The state of the component.                                             *)
(***************************************************************************)
VARIABLES
    polygons,      \* the polygons drawn: an array of arrays of points
    inputText,     \* the text of the text area
    error,         \* the error message, "" for none
    xCoordinate,   \* the text of the X field
    zCoordinate,   \* the text of the Z field
    customPoint,   \* the custom point, or null
    viewBox,       \* {minX, minY, width, height}
    zoom,
    tooltip,       \* {visible, x, y, content}
    isDragging,
    dragStart,     \* the drag anchor {x, y}, or null
    panOffset,     \* {x, y}
    args,          \* the arguments of a function applied on its own
    result         \* <<its result>>, <<>> before the call

compVars == <<polygons, inputText, error, xCoordinate, zCoordinate, customPoint,
              viewBox, zoom, tooltip, isDragging, dragStart, panOffset>>
vars == <<polygons, inputText, error, xCoordinate, zCoordinate, customPoint,
          viewBox, zoom, tooltip, isDragging, dragStart, panOffset, args, result>>

ZeroPan == [x |-> Int2X(0), y |-> Int2X(0)]

\* The useState initial values.
CompInit ==
    /\ polygons = Arr(<<>>)
    /\ inputText = <<>>
    /\ error = ""
    /\ xCoordinate = <<>>
    /\ zCoordinate = <<>>
    /\ customPoint = Null
    /\ viewBox = [minX |-> Int2X(0), minY |-> Int2X(0),
                  width |-> Int2X(100), height |-> Int2X(100)]
    /\ zoom = Int2X(1)
    /\ tooltip = [visible |-> FALSE, x |-> 0, y |-> 0, content |-> ""]
    /\ isDragging = FALSE
    /\ dragStart = Null
    /\ panOffset = ZeroPan

Init == CompInit /\ args = <<>> /\ result = <<>>

(***************************************************************************)
(* The handlers.                                                           *)
(***************************************************************************)
\* updateViewBox that leaves the pan offset as it is.
updateViewBox_KeepsPan(polys, cp) ==
    /\ viewBox' = FitOf(calculateBounds(polys, cp))
    /\ UNCHANGED panOffset

\* updateViewBox(polys, cp)
updateViewBox(polys, cp) ==
    /\ viewBox' = FitOf(calculateBounds(polys, cp))
    /\ panOffset' = ZeroPan

\* handleInputChange that shows no error when the text fails to parse.
handleInputChange_NoError(text) ==
    /\ inputText' = text
    /\ error' = ""
    /\ IF Trim(text) # <<>> /\ parsePolygons(text).ok
       THEN /\ polygons' = parsePolygons(text).v
            /\ updateViewBox(parsePolygons(text).v, customPoint)
       ELSE IF Trim(text) = <<>>
       THEN /\ polygons' = Arr(<<>>)
            /\ updateViewBox(Arr(<<>>), customPoint)
       ELSE /\ polygons' = Arr(<<>>)
            /\ UNCHANGED <<viewBox, panOffset>>
    /\ UNCHANGED <<xCoordinate, zCoordinate, customPoint, zoom, tooltip,
                   isDragging, dragStart>>

\* handleInputChange that keeps the polygons when the text fails to parse.
handleInputChange_KeepsPolygons(text) ==
    /\ inputText' = text
    /\ IF Trim(text) = <<>>
       THEN /\ error' = ""
            /\ polygons' = Arr(<<>>)
            /\ updateViewBox(Arr(<<>>), customPoint)
       ELSE IF parsePolygons(text).ok
       THEN /\ error' = ""
            /\ polygons' = parsePolygons(text).v
            /\ updateViewBox(parsePolygons(text).v, customPoint)
       ELSE /\ error' = parsePolygons(text).message
            /\ UNCHANGED <<polygons, viewBox, panOffset>>
    /\ UNCHANGED <<xCoordinate, zCoordinate, customPoint, zoom, tooltip,
                   isDragging, dragStart>>

\* handleInputChange that leaves the view as it is when the text is blank.
handleInputChange_BlankKeepsView(text) ==
    /\ inputText' = text
    /\ IF Trim(text) = <<>>
       THEN /\ error' = ""
            /\ polygons' = Arr(<<>>)
            /\ UNCHANGED <<viewBox, panOffset>>
       ELSE LET r == parsePolygons(text) IN
            IF r.ok
            THEN /\ error' = ""
                 /\ polygons' = r.v
                 /\ updateViewBox(r.v, customPoint)
            ELSE /\ error' = r.message
                 /\ polygons' = Arr(<<>>)
                 /\ UNCHANGED <<viewBox, panOffset>>
    /\ UNCHANGED <<xCoordinate, zCoordinate, customPoint, zoom, tooltip,
                   isDragging, dragStart>>

handleInputChange(text) ==
    /\ inputText' = text
    /\ IF Trim(text) = <<>>
       THEN /\ error' = ""
            /\ polygons' = Arr(<<>>)
            /\ updateViewBox(Arr(<<>>), customPoint)
       ELSE LET r == parsePolygons(text) IN
            IF r.ok
            THEN /\ error' = ""
                 /\ polygons' = r.v
                 /\ updateViewBox(r.v, customPoint)
            ELSE /\ error' = r.message
                 /\ polygons' = Arr(<<>>)
                 /\ UNCHANGED <<viewBox, panOffset>>
    /\ UNCHANGED <<xCoordinate, zCoordinate, customPoint, zoom, tooltip,
                   isDragging, dragStart>>

handleCoordinateChange(x, z) ==
    LET xNum == parseFloat(x)
        zNum == parseFloat(z)
        newPoint == Obj([x |-> xNum, z |-> zNum])
    IN  /\ xCoordinate' = x
        /\ zCoordinate' = z
        /\ IF TrimChars(x) = <<>> \/ TrimChars(z) = <<>>
              \/ IsNaNValue(xNum) \/ IsNaNValue(zNum)
           THEN /\ customPoint' = Null
                /\ updateViewBox(polygons, Null)
           ELSE /\ customPoint' = newPoint
                /\ updateViewBox(polygons, newPoint)
        /\ UNCHANGED <<polygons, inputText, error, zoom, tooltip, isDragging,
                       dragStart>>

\* The zoom step and the limits of zoom.
ZoomStep == Fin(3, 2)
MaxZoom == Int2X(10)
MinZoom == Fin(1, 10)

\* handleZoomIn without the upper limit.
handleZoomIn_NoLimit ==
    /\ zoom' = XMul(zoom, ZoomStep)
    /\ UNCHANGED <<polygons, inputText, error, xCoordinate, zCoordinate,
                   customPoint, viewBox, tooltip, isDragging, dragStart,
                   panOffset>>

handleZoomIn ==
    /\ zoom' = MathMin(XMul(zoom, ZoomStep), MaxZoom)
    /\ UNCHANGED <<polygons, inputText, error, xCoordinate, zCoordinate,
                   customPoint, viewBox, tooltip, isDragging, dragStart,
                   panOffset>>

handleZoomOut ==
    /\ zoom' = MathMax(XDiv(zoom, ZoomStep), MinZoom)
    /\ UNCHANGED <<polygons, inputText, error, xCoordinate, zCoordinate,
                   customPoint, viewBox, tooltip, isDragging, dragStart,
                   panOffset>>

\* handleReset that refits the view and keeps the zoom.
handleReset_KeepsZoom ==
    /\ updateViewBox(polygons, customPoint)
    /\ UNCHANGED <<polygons, inputText, error, xCoordinate, zCoordinate,
                   customPoint, zoom, tooltip, isDragging, dragStart>>

\* handleReset that resets zoom and pan and keeps the view box.
handleReset_KeepsViewBox ==
    /\ zoom' = Int2X(1)
    /\ panOffset' = ZeroPan
    /\ UNCHANGED <<polygons, inputText, error, xCoordinate, zCoordinate,
                   customPoint, viewBox, tooltip, isDragging, dragStart>>

handleReset ==
    /\ zoom' = Int2X(1)
    /\ updateViewBox(polygons, customPoint)
    /\ UNCHANGED <<polygons, inputText, error, xCoordinate, zCoordinate,
                   customPoint, tooltip, isDragging, dragStart>>


\* svgRef.current.getBoundingClientRect(): the drawing surface on the page.
SvgWidth == 800
SvgHeight == 400
SvgRect == [left |-> 8, top |-> 16, width |-> SvgWidth, height |-> SvgHeight]

\* (a).toFixed(3) of a whole number or Infinity.
ToFixed3(a) == IF IsFinite(a) THEN ToString(a.n) \o ".000" ELSE "Infinity"

\* The text of the tooltip of a point; polygonIndex is -1 for the custom
\* point (undefined in the code).
TooltipContent(point, polygonIndex) ==
    (IF polygonIndex >= 0
     THEN "Polygon " \o ToString(polygonIndex + 1)
     ELSE "Custom Point")
    \o "\nX: " \o ToFixed3(point.v["x"].v) \o "\nZ: " \o ToFixed3(point.v["z"].v)

\* onMouseEnter of the circle of a point, the pointer at (clientX, clientY).
handlePointHover(clientX, clientY, point, polygonIndex) ==
    /\ IF isDragging
       THEN UNCHANGED tooltip
       ELSE tooltip' = [visible |-> TRUE,
                        x |-> clientX - SvgRect.left + 10,
                        y |-> clientY - SvgRect.top - 10,
                        content |-> TooltipContent(point, polygonIndex)]
    /\ UNCHANGED <<polygons, inputText, error, xCoordinate, zCoordinate,
                   customPoint, viewBox, zoom, isDragging, dragStart, panOffset>>

\* handlePointLeave that empties the tooltip.
handlePointLeave_EmptiesTooltip ==
    /\ tooltip' = [visible |-> FALSE, x |-> 0, y |-> 0, content |-> ""]
    /\ UNCHANGED <<polygons, inputText, error, xCoordinate, zCoordinate,
                   customPoint, viewBox, zoom, isDragging, dragStart, panOffset>>

handlePointLeave ==
    /\ tooltip' = [tooltip EXCEPT !.visible = FALSE]
    /\ UNCHANGED <<polygons, inputText, error, xCoordinate, zCoordinate,
                   customPoint, viewBox, zoom, isDragging, dragStart, panOffset>>

\* handleMouseDown that leaves the tooltip as it is.
handleMouseDown_KeepsTooltip(button, clientX, clientY) ==
    IF button # 0
    THEN UNCHANGED compVars
    ELSE /\ isDragging' = TRUE
         /\ dragStart' = Obj([x |-> Num(clientX), y |-> Num(clientY)])
         /\ UNCHANGED <<polygons, inputText, error, xCoordinate, zCoordinate,
                        customPoint, viewBox, zoom, panOffset, tooltip>>

handleMouseDown(button, clientX, clientY) ==
    IF button # 0
    THEN UNCHANGED compVars
    ELSE /\ isDragging' = TRUE
         /\ dragStart' = Obj([x |-> Num(clientX), y |-> Num(clientY)])
         /\ tooltip' = [tooltip EXCEPT !.visible = FALSE]
         /\ UNCHANGED <<polygons, inputText, error, xCoordinate, zCoordinate,
                        customPoint, viewBox, zoom, panOffset>>

\* handleMouseMove that scales the delta without the zoom.
handleMouseMove_IgnoresZoom(clientX, clientY) ==
    IF ~isDragging \/ Falsy(dragStart)
    THEN UNCHANGED compVars
    ELSE LET deltaX == XSub(Int2X(clientX), dragStart.v["x"].v)
             deltaY == XSub(Int2X(clientY), dragStart.v["y"].v)
             scaleX == XDiv(viewBox.width, Int2X(SvgRect.width))
             scaleY == XDiv(viewBox.height, Int2X(SvgRect.height))
         IN  /\ panOffset' = [x |-> XSub(panOffset.x, XMul(deltaX, scaleX)),
                              y |-> XSub(panOffset.y, XMul(deltaY, scaleY))]
             /\ dragStart' = Obj([x |-> Num(clientX), y |-> Num(clientY)])
             /\ UNCHANGED <<polygons, inputText, error, xCoordinate,
                            zCoordinate, customPoint, viewBox, zoom, tooltip,
                            isDragging>>

handleMouseMove(clientX, clientY) ==
    IF ~isDragging \/ Falsy(dragStart)
    THEN UNCHANGED compVars
    ELSE LET deltaX == XSub(Int2X(clientX), dragStart.v["x"].v)
             deltaY == XSub(Int2X(clientY), dragStart.v["y"].v)
             scaleX == XDiv(XDiv(viewBox.width, zoom), Int2X(SvgRect.width))
             scaleY == XDiv(XDiv(viewBox.height, zoom), Int2X(SvgRect.height))
         IN  /\ panOffset' = [x |-> XSub(panOffset.x, XMul(deltaX, scaleX)),
                              y |-> XSub(panOffset.y, XMul(deltaY, scaleY))]
             /\ dragStart' = Obj([x |-> Num(clientX), y |-> Num(clientY)])
             /\ UNCHANGED <<polygons, inputText, error, xCoordinate,
                            zCoordinate, customPoint, viewBox, zoom, tooltip,
                            isDragging>>

\* handleMouseUp that keeps the drag anchor.
handleMouseUp_KeepsAnchor ==
    /\ isDragging' = FALSE
    /\ UNCHANGED <<polygons, inputText, error, xCoordinate, zCoordinate,
                   customPoint, viewBox, zoom, tooltip, panOffset, dragStart>>

handleMouseUp ==
    /\ isDragging' = FALSE
    /\ dragStart' = Null
    /\ UNCHANGED <<polygons, inputText, error, xCoordinate, zCoordinate,
                   customPoint, viewBox, zoom, tooltip, panOffset>>

\* handleMouseLeave that stops the drag and leaves its anchor where it was.
handleMouseLeave_KeepsAnchor ==
    /\ isDragging' = FALSE
    /\ tooltip' = [tooltip EXCEPT !.visible = FALSE]
    /\ UNCHANGED <<polygons, inputText, error, xCoordinate, zCoordinate,
                   customPoint, viewBox, zoom, panOffset, dragStart>>

handleMouseLeave ==
    /\ isDragging' = FALSE
    /\ dragStart' = Null
    /\ tooltip' = [tooltip EXCEPT !.visible = FALSE]
    /\ UNCHANGED <<polygons, inputText, error, xCoordinate, zCoordinate,
                   customPoint, viewBox, zoom, panOffset>>

(***************************************************************************)
(* The user.                                                               *)
(***************************************************************************)
\* [[{"x": a, "z": b}]]
TextOnePoint(a, b) ==
    <<P("["), P("["), P("{"), S("x"), P(":"), N(a), P(","), S("z"), P(":"),
      N(b), P("}"), P("]"), P("]")>>

\* The texts typed into the text area: nothing, blanks, no JSON, a set of one
\* polygon without points, one polygon of one point, a point without z.
MainTexts ==
    { <<>>,
      <<WS, WS>>,
      <<Word("not"), WS, Word("json")>>,
      <<P("["), P("["), P("]"), P("]")>>,
      TextOnePoint(1, 2),
      <<P("["), P("["), P("{"), S("x"), P(":"), N(1), P("}"), P("]"), P("]")>> }

\* The texts typed into a coordinate field.
MainCoordStrings == { <<>>, <<"3">> }

\* The places of the pointer on the page: steps along a line from the
\* corner of the surface.
PointerStep == [x |-> 40, y |-> 20]
PointerPositions ==
    { [x |-> SvgRect.left + i * PointerStep.x,
       y |-> SvgRect.top + i * PointerStep.y] : i \in 0..2 }

\* The mouse buttons: primary and secondary.
Buttons == {0, 2}

\* The zoom levels at which the view is dragged.
DragZooms == {Int2X(1), ZoomStep}

XAbs(a) == IF Sgn(a) < 0 THEN XNeg(a) ELSE a

\* The part of the state space explored further: the view is dragged at the
\* zoom levels DragZooms, by at most MaxPanSteps pointer steps at zoom 1.
Window ==
    /\ panOffset # ZeroPan => zoom \in DragZooms
    /\ IsFinite(panOffset.x) /\ IsFinite(viewBox.width) =>
          XLe(XMul(XAbs(panOffset.x), Int2X(SvgRect.width)),
              XMul(viewBox.width, Int2X(MaxPanSteps * PointerStep.x)))
    /\ IsFinite(panOffset.y) /\ IsFinite(viewBox.height) =>
          XLe(XMul(XAbs(panOffset.y), Int2X(SvgRect.height)),
              XMul(viewBox.height, Int2X(MaxPanSteps * PointerStep.y)))

InputChange ==
    /\ Window
    /\ \E text \in MainTexts : handleInputChange(text)
    /\ UNCHANGED <<args, result>>

CoordinateChange ==
    /\ Window
    /\ \E x \in MainCoordStrings, z \in MainCoordStrings :
           handleCoordinateChange(x, z)
    /\ UNCHANGED <<args, result>>

ZoomIn == Window /\ handleZoomIn /\ UNCHANGED <<args, result>>

ZoomOut == Window /\ handleZoomOut /\ UNCHANGED <<args, result>>

Reset == Window /\ handleReset /\ UNCHANGED <<args, result>>

\* The pointer enters the circle of a vertex drawn.
HoverVertex ==
    /\ Window
    /\ \E pos \in PointerPositions :
           \E i \in 1..Len(polygons.v) :
               \E j \in 1..Len(polygons.v[i].v) :
                   handlePointHover(pos.x, pos.y, polygons.v[i].v[j], i - 1)
    /\ UNCHANGED <<args, result>>

\* The pointer enters the circle of the custom point, drawn when there is one.
HoverCustomPoint ==
    /\ Window
    /\ ~Falsy(customPoint)
    /\ \E pos \in PointerPositions :
           handlePointHover(pos.x, pos.y, customPoint, 0 - 1)
    /\ UNCHANGED <<args, result>>

PointLeave == Window /\ handlePointLeave /\ UNCHANGED <<args, result>>

MouseDown ==
    /\ Window
    /\ \E button \in Buttons, pos \in PointerPositions :
           handleMouseDown(button, pos.x, pos.y)
    /\ UNCHANGED <<args, result>>

MouseMove ==
    /\ Window
    /\ \E pos \in PointerPositions : handleMouseMove(pos.x, pos.y)
    /\ UNCHANGED <<args, result>>

MouseUp == Window /\ handleMouseUp /\ UNCHANGED <<args, result>>

MouseLeave == Window /\ handleMouseLeave /\ UNCHANGED <<args, result>>

Next ==
    \/ InputChange
    \/ CoordinateChange
    \/ ZoomIn
    \/ ZoomOut
    \/ Reset
    \/ HoverVertex
    \/ HoverCustomPoint
    \/ PointLeave
    \/ MouseDown
    \/ MouseMove
    \/ MouseUp
    \/ MouseLeave

Spec == Init /\ [][Next]_vars


(***************************************************************************)
(* Reset after a parse: the text area, the coordinate fields, the zoom     *)
(* buttons, the drag and the reset button, with args holding the view box  *)
(* as it was right after the last text that parsed, until a coordinate or  *)
(* another text is typed.                                                  *)
(***************************************************************************)
\* The text area: a text that parses is noted with the view box it leaves.
NotedInputChange ==
    /\ Window
    /\ \E text \in MainTexts :
         /\ handleInputChange(text)
         /\ args' = IF Trim(text) # <<>> /\ parsePolygons(text).ok
                    THEN <<[viewBox |-> viewBox', restored |-> FALSE]>>
                    ELSE <<>>
    /\ UNCHANGED result

\* A coordinate field: the parse is no longer the last change of the view.
NotedCoordinateChange ==
    /\ Window
    /\ \E x \in MainCoordStrings, z \in MainCoordStrings :
           handleCoordinateChange(x, z)
    /\ args' = <<>>
    /\ UNCHANGED result

\* The reset button: a reset of a view that was zoomed and panned since the
\* parse is noted.
NotedReset ==
    /\ Window
    /\ handleReset
    /\ args' = IF args # <<>> /\ zoom # Int2X(1) /\ panOffset # ZeroPan
               THEN <<[args[1] EXCEPT !.restored = TRUE]>>
               ELSE args
    /\ UNCHANGED result

ResetNext ==
    \/ NotedInputChange
    \/ NotedCoordinateChange
    \/ NotedReset
    \/ ZoomIn
    \/ ZoomOut
    \/ MouseDown
    \/ MouseMove
    \/ MouseUp
    \/ MouseLeave

SpecReset == Init /\ [][ResetNext]_vars


(***************************************************************************)
(* handleCoordinateChange on its own: args holds the two strings handed    *)
(* over, result tells that the handler has run.  The strings are those of  *)
(* at most two characters of CoordChars and the words of CoordWords.       *)
(***************************************************************************)
CoordChars == {"1", "a", " ", "-"}

CoordWords ==
    { InfinityWord, <<"-">> \o InfinityWord,
      <<"1", "e", "9", "9", "9">>, <<"1", "e", "2">> }

CoordStrings ==
    { <<>> } \cup { <<c>> : c \in CoordChars }
             \cup { <<c, d>> : c \in CoordChars, d \in CoordChars }
             \cup CoordWords

CoordInit ==
    /\ CompInit
    /\ args \in [x : CoordStrings, z : CoordStrings]
    /\ result = <<>>

CoordChange ==
    /\ result = <<>>
    /\ handleCoordinateChange(args.x, args.z)
    /\ result' = <<customPoint'>>
    /\ UNCHANGED args

CoordNext == CoordChange

SpecCoord == CoordInit /\ [][CoordNext]_vars


(***************************************************************************)
(* The text area and the coordinate fields, the fields taking nothing, a   *)
(* number, a letter, a number followed by a letter, and Infinity.          *)
(***************************************************************************)
FieldStrings == { <<>>, <<"1">>, <<"a">>, <<"1", "a">>, InfinityWord }

FieldsCoordinateChange ==
    /\ \E x \in FieldStrings, z \in FieldStrings :
           handleCoordinateChange(x, z)
    /\ UNCHANGED <<args, result>>

FieldsNext ==
    \/ InputChange
    \/ FieldsCoordinateChange

SpecFields == Init /\ [][FieldsNext]_vars


(***************************************************************************)
(* The text area after a failure: the text area and the coordinate fields, *)
(* with args telling whether an error was shown when the last text was     *)
(* typed.                                                                  *)
(***************************************************************************)
InputAfterFailure ==
    /\ \E text \in MainTexts : handleInputChange(text)
    /\ args' = <<[failed |-> error # ""]>>
    /\ UNCHANGED result

RecoverNext ==
    \/ InputAfterFailure
    \/ FieldsCoordinateChange

SpecRecover == Init /\ [][RecoverNext]_vars


(***************************************************************************)
(* The end of calculateBounds in doubles: args is the rectangle of the     *)
(* points folded in, its corners whole numbers, result the rectangle       *)
(* returned.                                                               *)
(***************************************************************************)
\* The literal 0.1.
DTenth == DDiv(DInt(1), DInt(10))

DRectOf(r) ==
    [minX |-> DInt(r.minX), minY |-> DInt(r.minY),
     maxX |-> DInt(r.maxX), maxY |-> DInt(r.maxY)]

\* "Handle case where we only have a single point", on whole numbers.
ExpandSinglePointInt(r) ==
    IF r.minX = r.maxX /\ r.minY = r.maxY
    THEN [minX |-> r.minX - SinglePointMargin, minY |-> r.minY - SinglePointMargin,
          maxX |-> r.maxX + SinglePointMargin, maxY |-> r.maxY + SinglePointMargin]
    ELSE r

\* The padding of the rectangle r of doubles.
DPadding(r) ==
    DMul(DMax(DSub(r.maxX, r.minX), DSub(r.maxY, r.minY)), DTenth)

\* "Add padding" with the padding taken from the smaller side.
DAddPadding_SmallerSide(r) ==
    CHOOSE res \in
        { [minX |-> DSub(r.minX, padding), minY |-> DSub(r.minY, padding),
           maxX |-> DAdd(r.maxX, padding), maxY |-> DAdd(r.maxY, padding)] :
            padding \in { DMul(DMin(DSub(r.maxX, r.minX),
                                     DSub(r.maxY, r.minY)), DTenth) } } : TRUE

\* "Add padding" in doubles.
DAddPadding(r) ==
    CHOOSE res \in
        { [minX |-> DSub(r.minX, padding), minY |-> DSub(r.minY, padding),
           maxX |-> DAdd(r.maxX, padding), maxY |-> DAdd(r.maxY, padding)] :
            padding \in { DPadding(r) } } : TRUE

\* The rectangles of the points folded in.
PadRectangles ==
    { [minX |-> a, minY |-> b, maxX |-> c, maxY |-> d] :
        a \in (0 - 1)..MaxPadCoord, b \in (0 - 1)..MaxPadCoord,
        c \in (0 - 1)..MaxPadCoord, d \in (0 - 1)..MaxPadCoord }
    \ { r \in [minX : (0 - 1)..MaxPadCoord, minY : (0 - 1)..MaxPadCoord,
                 maxX : (0 - 1)..MaxPadCoord, maxY : (0 - 1)..MaxPadCoord] :
            r.minX > r.maxX \/ r.minY > r.maxY }

PadInit ==
    /\ CompInit
    /\ args \in PadRectangles
    /\ result = <<>>

\* Lines 101-116 of calculateBounds.
PadRectangle ==
    /\ result = <<>>
    /\ result' = <<DAddPadding(DRectOf(ExpandSinglePointInt(args)))>>
    /\ UNCHANGED <<compVars, args>>

PadNext == PadRectangle

SpecPad == PadInit /\ [][PadNext]_vars


(***************************************************************************)
(* Drawing.                                                                *)
(***************************************************************************)
\* The centre (cx, cy) of the circle drawn for a vertex or for the custom
\* point: cy is point.z in src/src/App.tsx and -point.z in
\* src/unnamed/part_000.
CircleOf(point, variant) ==
    [cx |-> point.v["x"].v,
     cy |-> IF variant = "flipped" THEN XNeg(point.v["z"].v)
            ELSE point.v["z"].v]

\* The rectangle shown at zoom 1 and pan offset {0, 0} holds (cx, cy).
Shows(view, c) ==
    /\ XLe(view.minX, c.cx)
    /\ XLe(c.cx, XAdd(view.minX, view.width))
    /\ XLe(view.minY, c.cy)
    /\ XLe(c.cy, XAdd(view.minY, view.height))

(***************************************************************************)
(* calculateBounds on its own: the polygon sets of up to two points and    *)
(* the custom points over the coordinates -1..MaxCoord, and the point      *)
(* (Infinity, 0).                                                          *)
(***************************************************************************)
Coords == (0 - 1)..MaxCoord

\* {"x": 1e999, "z": 0} once parsed.
HugePoint == Obj([x |-> Infinity, z |-> Num(0)])

Points == { Point(a, b) : a \in Coords, b \in Coords } \cup { HugePoint }

BoundsPolygonSets ==
    { Arr(<<>>), Arr(<<Arr(<<>>)>>), Arr(<<Arr(<<>>), Arr(<<>>)>>) }
    \cup { Arr(<<Arr(<<p>>)>>) : p \in Points }
    \cup { Arr(<<Arr(<<>>), Arr(<<p>>)>>) : p \in Points }
    \cup { Arr(<<Arr(<<p, q>>)>>) : p \in Points, q \in Points }
    \cup { Arr(<<Arr(<<p>>), Arr(<<q>>)>>) : p \in Points, q \in Points }

BoundsInit ==
    /\ CompInit
    /\ args \in [polygons : BoundsPolygonSets, customPoint : {Null} \cup Points]
    /\ result = <<>>

\* calculateBounds(polygons, customPoint) of src/src/App.tsx.
CallCalculateBounds ==
    /\ result = <<>>
    /\ result' = <<[variant |-> "direct",
                    rect |-> calculateBounds(args.polygons, args.customPoint)]>>
    /\ UNCHANGED <<compVars, args>>

\* calculateBounds(polygons, customPoint) of src/unnamed/part_000.
CallCalculateBoundsFlipped ==
    /\ result = <<>>
    /\ result' = <<[variant |-> "flipped",
                    rect |-> calculateBoundsFlipped(args.polygons,
                                                    args.customPoint)]>>
    /\ UNCHANGED <<compVars, args>>

BoundsNext == CallCalculateBounds \/ CallCalculateBoundsFlipped

SpecBounds == BoundsInit /\ [][BoundsNext]_vars

(***************************************************************************)
(* calculateBounds of src/App.tsx, the variant without custom point, on    *)
(* its own: args holds the polygons handed over, result the rectangle      *)
(* returned.                                                               *)
(***************************************************************************)
\* calculateBounds(polygons) of src/App.tsx: z is flipped to Y, the padding
\* follows the fold at once.
calculateBoundsLegacy(polys) ==
    IF Len(polys.v) = 0 THEN DefaultBounds
    ELSE AddPadding(FoldPolygons(Rect(PInf, PInf, NInf, NInf), polys, 1, TRUE))

LegacyInit ==
    /\ CompInit
    /\ args \in [polygons : BoundsPolygonSets, customPoint : {Null}]
    /\ result = <<>>

CallCalculateBoundsLegacy ==
    /\ result = <<>>
    /\ result' = <<[variant |-> "legacy",
                    rect |-> calculateBoundsLegacy(args.polygons)]>>
    /\ UNCHANGED <<compVars, args>>

LegacyNext == CallCalculateBoundsLegacy

SpecLegacy == LegacyInit /\ [][LegacyNext]_vars

(***************************************************************************)
(* parsePolygons on its own: the texts of JSON values of up to MaxPolys    *)
(* elements of up to two points each, whole and cut short.                 *)
(***************************************************************************)
MaxPolys == 2

\* The order in which the properties of an object are written.
KeyOrder == <<"x", "z", "hasOwnProperty">>

\* The text of a JSON value, a blank after every comma.
RECURSIVE TextOf(_), TextOfElements(_, _), TextOfMembers(_, _, _)
TextOf(val) ==
    CASE val.t = "number" -> <<IF IsFinite(val.v) THEN N(val.v.n) ELSE Huge>>
      [] val.t = "string" -> <<S(val.v)>>
      [] val.t = "null" -> <<NullLit>>
      [] val.t = "array" -> <<P("[")>> \o TextOfElements(val.v, 1) \o <<P("]")>>
      [] val.t = "object" ->
           <<P("{")>> \o TextOfMembers(val.v, 1, TRUE) \o <<P("}")>>

TextOfElements(elems, i) ==
    IF i > Len(elems) THEN <<>>
    ELSE (IF i > 1 THEN <<P(","), WS>> ELSE <<>>)
         \o TextOf(elems[i]) \o TextOfElements(elems, i + 1)

TextOfMembers(f, q, first) ==
    IF q > Len(KeyOrder) THEN <<>>
    ELSE IF KeyOrder[q] \in DOMAIN f
    THEN (IF first THEN <<>> ELSE <<P(","), WS>>)
         \o <<S(KeyOrder[q]), P(":")>> \o TextOf(f[KeyOrder[q]])
         \o TextOfMembers(f, q + 1, FALSE)
    ELSE TextOfMembers(f, q + 1, first)

\* What stands in the place of a point: a point, a point of x 1e999, a
\* point without z, a point with a string for z, null, a point with a
\* property named hasOwnProperty.
PointLikes ==
    { Point(1, 2),
      HugePoint,
      Obj([x |-> Num(1)]),
      Obj([x |-> Num(1), z |-> Str("a")]),
      Null,
      Obj([x |-> Num(1), z |-> Num(2), hasOwnProperty |-> Num(1)]) }

\* The sequences of up to n elements of S.
SeqsUpTo(Vals, n) == UNION { [1..m -> Vals] : m \in 0..n }

\* What stands in the place of a polygon: an array of none or one of
\* PointLikes, an array of the point (1, 2) and one of PointLikes, or null.
PolygonLikes ==
    { Arr(ps) : ps \in SeqsUpTo(PointLikes, 1) }
    \cup { Arr(<<Point(1, 2), p>>) : p \in PointLikes }
    \cup { Null }

\* The JSON values typed: arrays of up to MaxPolys of PolygonLikes, and
\* a number, null and a point at the top level.
ParseValues ==
    { Arr(es) : es \in SeqsUpTo(PolygonLikes, MaxPolys) }
    \cup { Num(1), Null, Point(1, 2) }

\* The texts typed, each with what it stands for: wellFormed tells whether
\* it is the text of a JSON value, value is that value.
ParseInputs ==
    { [text |-> TextOf(val), wellFormed |-> TRUE, value |-> val] :
        val \in ParseValues }
    \cup { [text |-> SubSeq(TextOf(val), 1, Len(TextOf(val)) - 1),
            wellFormed |-> FALSE, value |-> Null] : val \in ParseValues }
    \cup { [text |-> t, wellFormed |-> FALSE, value |-> Null] :
             t \in { <<>>, <<WS>>, <<Word("not"), WS, Word("json")>> } }

ParseInit ==
    /\ CompInit
    /\ args \in ParseInputs
    /\ result = <<>>

CallParsePolygons ==
    /\ result = <<>>
    /\ result' = <<parsePolygons(args.text)>>
    /\ UNCHANGED <<compVars, args>>

ParseNext == CallParsePolygons

SpecParse == ParseInit /\ [][ParseNext]_vars

(***************************************************************************)
(* The zoom steps on their own, in doubles: args is the zoom of the        *)
(* component, result the last two steps taken, each with the zoom before   *)
(* and after it.                                                           *)
(***************************************************************************)
\* The literals 1.5, 10 and 0.1 of the zoom steps.
DZoomStep == DDiv(DInt(3), DInt(2))
DMaxZoom == DInt(10)
DMinZoom == DDiv(DInt(1), DInt(10))

\* The zoom-in step that takes the larger of the product and the limit.
ZoomInStep_TakesLarger(prev) == DMax(DMul(prev, DZoomStep), DMaxZoom)

\* (prev) => Math.min(prev * 1.5, 10)
ZoomInStep(prev) == DMin(DMul(prev, DZoomStep), DMaxZoom)

\* (prev) => Math.max(prev / 1.5, 0.1)
ZoomOutStep(prev) == DMax(DDiv(prev, DZoomStep), DMinZoom)

\* The last step and the one before it.
LastTwo(steps) ==
    IF Len(steps) > 2 THEN SubSeq(steps, Len(steps) - 1, Len(steps)) ELSE steps

ZoomInit ==
    /\ CompInit
    /\ args = [zoom |-> DInt(1)]
    /\ result = <<>>

\* handleZoomIn
StepZoomIn ==
    /\ args' = [zoom |-> ZoomInStep(args.zoom)]
    /\ result' = LastTwo(Append(result, [op |-> "in", from |-> args.zoom,
                                         to |-> ZoomInStep(args.zoom)]))
    /\ UNCHANGED compVars

\* handleZoomOut
StepZoomOut ==
    /\ args' = [zoom |-> ZoomOutStep(args.zoom)]
    /\ result' = LastTwo(Append(result, [op |-> "out", from |-> args.zoom,
                                         to |-> ZoomOutStep(args.zoom)]))
    /\ UNCHANGED compVars

\* handleReset: setZoom(1)
StepZoomReset ==
    /\ args' = [zoom |-> DInt(1)]
    /\ result' = <<>>
    /\ UNCHANGED compVars

ZoomNext == StepZoomIn \/ StepZoomOut \/ StepZoomReset

SpecZoom == ZoomInit /\ [][ZoomNext]_vars


(***************************************************************************)
(* The pointer moves of one drag on their own, in doubles: args is the     *)
(* view box, the zoom and the anchor when the drag starts, result the      *)
(* pan offset and the anchor after each of up to two moves.                *)
(***************************************************************************)
\* The pointer moves up to MaxDragPixels pixels to the right and down.
MaxDragPixels == 5

\* The double nearest to the rational a.
DOfX(a) == DDiv(DInt(a.n), DInt(a.d))

\* handleMouseMove while dragging: the pan offset and the anchor after the
\* pointer moved to (clientX, clientY), for pan offset pan, anchor anchor, a
\* view box of width w and height h and zoom z.
MouseMoveStep(pan, anchor, w, h, z, clientX, clientY) ==
    LET deltaX == DInt(clientX - anchor.x)
        deltaY == DInt(clientY - anchor.y)
        scaleX == DDiv(DDiv(w, z), DInt(SvgRect.width))
        scaleY == DDiv(DDiv(h, z), DInt(SvgRect.height))
    IN  [panOffset |-> [x |-> DSub(pan.x, DMul(deltaX, scaleX)),
                        y |-> DSub(pan.y, DMul(deltaY, scaleY))],
         dragStart |-> [x |-> clientX, y |-> clientY]]

\* The view boxes dragged: the one of the start, {0, 0, 100, 100}, and the
\* fit of the one point (1, 2), {-5, -4, 12, 12}.
DragViews ==
    { FitOf(calculateBounds(Arr(<<>>), Null)),
      FitOf(calculateBounds(Arr(<<Arr(<<Point(1, 2)>>)>>), Null)) }

\* The zooms dragged at: 1 and 1.5.
DragZoomLevels == { DInt(1), ZoomInStep(DInt(1)) }

\* The places of the pointer during the drag.
DragPointers ==
    { [x |-> SvgRect.left + i, y |-> SvgRect.top + i] : i \in 0..MaxDragPixels }

\* The pan offset and the anchor when the drag starts: handleMouseDown at
\* the corner of the surface, the view not panned yet.
DragStart ==
    [panOffset |-> [x |-> DInt(0), y |-> DInt(0)],
     dragStart |-> [x |-> SvgRect.left, y |-> SvgRect.top]]

DragInit ==
    /\ CompInit
    /\ args \in [viewBox : DragViews, zoom : DragZoomLevels]
    /\ result = <<>>

\* The pan offset and the anchor after the moves made so far.
DragNow == IF result = <<>> THEN DragStart ELSE result[Len(result)]

\* onMouseMove during the drag.
DragMove ==
    /\ Len(result) < 2
    /\ \E p \in DragPointers :
         result' = Append(result,
                          MouseMoveStep(DragNow.panOffset, DragNow.dragStart,
                                        DOfX(args.viewBox.width),
                                        DOfX(args.viewBox.height),
                                        args.zoom, p.x, p.y))
    /\ UNCHANGED <<compVars, args>>

DragNext == DragMove

SpecDrag == DragInit /\ [][DragNext]_vars



(***************************************************************************)
(* Properties.                                                             *)
(***************************************************************************)
\* The points handed to calculateBounds: those of the polygons, and the
\* custom point when there is one.
AllPoints(polys, cp) ==
    UNION { { polys.v[i].v[j] : j \in 1..Len(polys.v[i].v) } :
              i \in 1..Len(polys.v) }
    \cup (IF Falsy(cp) THEN {} ELSE {cp})

\* The number of points handed to calculateBounds, repeated ones counted.
RECURSIVE CountPoints(_, _)
CountPoints(polys, i) ==
    IF i > Len(polys.v) THEN 0
    ELSE Len(polys.v[i].v) + CountPoints(polys, i + 1)

\* The view box that fits the polygons and the custom point of the state.
CurrentFit == FitOf(calculateBounds(polygons, customPoint))

\* The view box that fits the one polygon of the one point (1, 2) and the
\* custom point of the state.
OnePointFit ==
    FitOf(calculateBounds(Arr(<<Arr(<<Point(1, 2)>>)>>), customPoint))

\* C1: zoom is 1 initially and lies in [0.1, 10] in every state reachable by
\* the handlers.
C1_ZoomWithinLimits ==
    /\ zoom = Int2X(1)
    /\ [](XLe(Fin(1, 10), zoom) /\ XLe(zoom, Int2X(10)))

\* C1, witness: zoom stands at 10 in the middle of a drag with an error shown
\* (the step from 7.59375 was cut at the limit).
C1_Witness == zoom = Int2X(10) /\ isDragging /\ error # ""

\* C2: the rectangle calculateBounds of src/src/App.tsx returns for a polygon
\* set the parser accepts contains every point of every polygon and the
\* custom point, z mapped to Y directly.
C2_BoundsContainPoints ==
    (/\ result # <<>>
     /\ result[1].variant = "direct"
     /\ parsePolygons(TextOf(args.polygons)).ok)
    => \A pt \in AllPoints(args.polygons, args.customPoint) :
          /\ XLe(result[1].rect.minX, pt.v["x"].v)
          /\ XLe(pt.v["x"].v, result[1].rect.maxX)
          /\ XLe(result[1].rect.minY, pt.v["z"].v)
          /\ XLe(pt.v["z"].v, result[1].rect.maxY)

\* C3: in every reachable state the view box is the fit of the bounds of the
\* current polygons and custom point.
C3_ViewBoxIsFit == viewBox = CurrentFit

\* C4: while the text area holds a non-blank text that fails to parse or to
\* validate, the polygon set is empty and the error message is not.
C4_FailureClearsPolygons ==
    (Trim(inputText) # <<>> /\ ~parsePolygons(inputText).ok)
    => (polygons = Arr(<<>>) /\ error # "")

\* C4, witness: a text that is no JSON was typed over a polygon that had been
\* drawn (the view box still fits it).
C4_Witness ==
    /\ ~JSONParse(inputText).ok
    /\ Trim(inputText) # <<>>
    /\ viewBox = OnePointFit
    /\ viewBox # CurrentFit

\* The text is JSON for an array and fails the validation of its elements.
NestedFailure(text) ==
    /\ Trim(text) # <<>>
    /\ JSONParse(text).ok
    /\ IsArray(JSONParse(text).v)
    /\ ~parsePolygons(text).ok

\* C5, as claimed: a text whose validation fails on a nested element leaves
\* the polygon set as it was before the edit.
C5_FailureKeepsPolygons ==
    [][(inputText' # inputText /\ NestedFailure(inputText'))
          => polygons' = polygons]_vars

\* C5, amended: a text whose validation fails on a nested element leaves the
\* empty polygon set, no partial one and not the one held before; the error
\* message is set and nothing else but the text changes.
C5_FailureEmptiesPolygons ==
    [][(inputText' # inputText /\ NestedFailure(inputText'))
          => (/\ polygons' = Arr(<<>>)
              /\ error' # ""
              /\ UNCHANGED <<xCoordinate, zCoordinate, customPoint, viewBox,
                             zoom, tooltip, isDragging, dragStart,
                             panOffset>>)]_vars

\* C5, witness: a point without z was typed over a polygon that had been
\* drawn (the view box still fits it).
C5_Witness ==
    /\ NestedFailure(inputText)
    /\ polygons = Arr(<<>>)
    /\ viewBox = OnePointFit
    /\ viewBox # CurrentFit

\* The value is an array of arrays of objects with own numeric x and z.
IsPoint(val) ==
    /\ val.t = "object"
    /\ {"x", "z"} \subseteq DOMAIN val.v
    /\ val.v["x"].t = "number"
    /\ val.v["z"].t = "number"

IsPolygonSet(val) ==
    /\ val.t = "array"
    /\ \A i \in 1..Len(val.v) :
          /\ val.v[i].t = "array"
          /\ \A j \in 1..Len(val.v[i].v) : IsPoint(val.v[i].v[j])

\* C6: parsePolygons succeeds exactly on the texts of JSON arrays of arrays
\* of elements with own numeric x and z, and then returns the value the text
\* stands for.
C6_ParseAcceptsExactlyValid ==
    result # <<>>
    => /\ result[1].ok <=> (args.wellFormed /\ IsPolygonSet(args.value))
       /\ result[1].ok => result[1].v = args.value

\* C7: the rectangle of calculateBounds of src/src/App.tsx has
\* minX <= maxX and minY <= maxY, and is {0, 0, 100, 100} when there is no
\* point at all.
C7_BoundsOrdered ==
    (result # <<>> /\ result[1].variant = "direct")
    => /\ XLe(result[1].rect.minX, result[1].rect.maxX)
       /\ XLe(result[1].rect.minY, result[1].rect.maxY)
       /\ AllPoints(args.polygons, args.customPoint) = {}
            => result[1].rect = Rect(Int2X(0), Int2X(0), Int2X(100), Int2X(100))

\* C8: for the empty polygon set and no custom point calculateBounds returns
\* {0, 0, 100, 100} as it stands.
C8_EmptyGivesDefault ==
    (/\ result # <<>>
     /\ result[1].variant = "direct"
     /\ args.polygons = Arr(<<>>)
     /\ Falsy(args.customPoint))
    => result[1].rect = [minX |-> Int2X(0), minY |-> Int2X(0),
                         maxX |-> Int2X(100), maxY |-> Int2X(100)]

\* C8, witness: the bounds of the empty polygon set without custom point
\* have been computed.
C8_Witness ==
    /\ result # <<>>
    /\ result[1].variant = "direct"
    /\ args.polygons = Arr(<<>>)
    /\ Falsy(args.customPoint)

\* The rectangle r is centred on (cx, cy), its edges 5 + 1 from the centre:
\* 5 of the margin of a single point, 1 of padding, a tenth of the side 10.
CentredOn(r, cx, cy) ==
    /\ XEq(XSub(cx, r.minX), XSub(r.maxX, cx))
    /\ XEq(XSub(cy, r.minY), XSub(r.maxY, cy))
    /\ XLe(Int2X(5), XSub(cx, r.minX))
    /\ XLe(Int2X(5), XSub(cy, r.minY))
    /\ XEq(XSub(r.maxX, r.minX), XAdd(Int2X(10), XMul(Int2X(10), Fin(2, 10))))
    /\ XEq(XSub(r.maxY, r.minY), XAdd(Int2X(10), XMul(Int2X(10), Fin(2, 10))))

\* All the points handed to calculateBounds are one point.
OnePoint == Cardinality(AllPoints(args.polygons, args.customPoint)) = 1
ThePoint == CHOOSE pt \in AllPoints(args.polygons, args.customPoint) : TRUE

C10_ResetRefits ==
    [][handleReset => (/\ zoom' = Int2X(1)
                       /\ panOffset' = [x |-> Int2X(0), y |-> Int2X(0)]
                       /\ viewBox' = FitOf(calculateBounds(polygons',
                                                           customPoint')))]_vars

\* C10, witness: the view is reset and fits the custom point alone, while
\* the text area holds a text that failed to parse.
C10_Witness ==
    /\ error # ""
    /\ ~Falsy(customPoint)
    /\ zoom = Int2X(1)
    /\ panOffset = ZeroPan
    /\ viewBox = CurrentFit
    /\ isDragging

\* C12, as claimed: a zoom-in step that was not cut at 10, followed by a
\* zoom-out step, leaves the zoom it started from.
C12_ZoomInThenOutReturns ==
    (/\ Len(result) = 2
     /\ result[1].op = "in"
     /\ result[2].op = "out"
     /\ DLe(DMul(result[1].from, DZoomStep), DMaxZoom))
    => result[2].to = result[1].from

\* C13: a zoom-in step never lowers the zoom and a zoom-out step never
\* raises it; a zoom-in step at 10 and a zoom-out step at 0.1 change nothing.
C13_ZoomStepsMonotonic ==
    \A i \in 1..Len(result) :
       /\ result[i].op = "in" => DLe(result[i].from, result[i].to)
       /\ result[i].op = "out" => DLe(result[i].to, result[i].from)
       /\ (result[i].op = "in" /\ result[i].from = DMaxZoom)
             => result[i].to = DMaxZoom
       /\ (result[i].op = "out" /\ result[i].from = DMinZoom)
             => result[i].to = DMinZoom

\* C13, witness: two zoom-in steps were taken at 10, the second one after a
\* zoom that was cut at 10 by the first.
C13_Witness ==
    /\ Len(result) = 2
    /\ result[1].op = "in" /\ result[2].op = "in"
    /\ result[1].from = DMaxZoom
    /\ result[2].from = DMaxZoom
    /\ args.zoom = DMaxZoom

\* C16, as claimed: two pointer moves of one drag leave the pan offset and
\* the anchor that the one move from the first anchor to the last place of
\* the pointer leaves.
C16_TwoMovesAsOne ==
    Len(result) = 2
    => result[2] = MouseMoveStep(DragStart.panOffset, DragStart.dragStart,
                                 DOfX(args.viewBox.width),
                                 DOfX(args.viewBox.height), args.zoom,
                                 result[2].dragStart.x, result[2].dragStart.y)

\* C11: after a text that parsed and any zoom-in, zoom-out and drag steps,
\* handleReset leaves zoom 1, pan offset {0, 0} and the view box that held
\* right after that parse.
C11_ResetRestoresParseView ==
    [][(handleReset /\ args # <<>>)
          => (/\ zoom' = Int2X(1)
              /\ panOffset' = ZeroPan
              /\ viewBox' = args[1].viewBox)]_vars

\* C11, witness: a view that was zoomed and panned after the parse of a
\* polygon has been reset, and shows again what it showed after the parse.
C11_Witness ==
    /\ args # <<>>
    /\ args[1].restored
    /\ polygons # Arr(<<>>)
    /\ zoom = Int2X(1)
    /\ panOffset = ZeroPan
    /\ viewBox = args[1].viewBox

\* C14: the drag is a machine of two states. A press of the primary button
\* starts a drag and records the place of the pointer as the anchor; a
\* release, or the pointer leaving the surface, ends the drag and clears the
\* anchor; a press of another button changes nothing. The drag starts and
\* ends in no other way.
C14_DragStateMachine ==
    [][/\ \A pos \in PointerPositions :
            /\ handleMouseDown(0, pos.x, pos.y)
                  => /\ isDragging'
                     /\ dragStart' = Obj([x |-> Num(pos.x), y |-> Num(pos.y)])
            /\ \A button \in Buttons \ {0} :
                  handleMouseDown(button, pos.x, pos.y) => UNCHANGED compVars
       /\ (handleMouseUp \/ handleMouseLeave)
             => (~isDragging' /\ dragStart' = Null)
       /\ (~isDragging /\ isDragging')
             => \E pos \in PointerPositions : handleMouseDown(0, pos.x, pos.y)
       /\ (isDragging /\ ~isDragging')
             => (/\ handleMouseUp \/ handleMouseLeave
                 /\ dragStart' = Null)]_vars

\* C14, witness: a drag that moved the view has ended, and no anchor is left.
C14_Witness ==
    /\ ~isDragging
    /\ dragStart = Null
    /\ panOffset # ZeroPan

\* C15: while a drag is under way no tooltip is visible.
C15_NoTooltipWhileDragging == isDragging => ~tooltip.visible

\* C15, witness: a drag is under way over a point whose tooltip was shown
\* before, and the tooltip is hidden.
C15_Witness ==
    /\ isDragging
    /\ tooltip.content # ""
    /\ ~tooltip.visible

\* C17: the operations that compute the view box anew (handleInputChange of
\* a blank text or of a text that parses, handleCoordinateChange,
\* handleReset) leave the pan offset {0, 0}, so the view box changes in no
\* step that leaves a pan; handleZoomIn and handleZoomOut change neither the
\* pan offset nor the view box.
C17_RefitClearsPanZoomKeepsIt ==
    [][/\ \A text \in MainTexts :
            (handleInputChange(text)
                /\ (Trim(text) = <<>> \/ parsePolygons(text).ok))
               => panOffset' = ZeroPan
       /\ \A x \in MainCoordStrings, z \in MainCoordStrings :
            handleCoordinateChange(x, z) => panOffset' = ZeroPan
       /\ handleReset => panOffset' = ZeroPan
       /\ viewBox' # viewBox => panOffset' = ZeroPan
       /\ (handleZoomIn \/ handleZoomOut)
             => UNCHANGED <<panOffset, viewBox>>]_vars

\* C17, witness: a zoomed view is fitted to a polygon and a custom point, and
\* the pan offset is {0, 0}.
C17_Witness ==
    /\ panOffset = ZeroPan
    /\ zoom # Int2X(1)
    /\ customPoint # Null
    /\ viewBox = FitOf(calculateBounds(polygons, customPoint))
    /\ polygons # Arr(<<>>)

\* A string holds a finite number when, blanks at its ends aside, the whole
\* of it is a sign or none and a numeric literal, of a finite value.
HoldsFiniteNumber(str) ==
    LET t == TrimChars(str)
        signed == t # <<>> /\ Head(t) \in {"-", "+"}
        body == IF signed THEN Tail(t) ELSE t
        lit == LiteralAt(body)
    IN  /\ body # <<>>
        /\ lit.len = Len(body)
        /\ IsFinite(lit.v)

\* C18: after handleCoordinateChange(x, z) there is a custom point if and
\* only if both strings hold a finite number; an empty or non-numeric entry
\* in either field leaves no custom point.
C18_PointIffBothFinite ==
    result # <<>>
       => (customPoint # Null
              <=> (HoldsFiniteNumber(args.x) /\ HoldsFiniteNumber(args.z)))

\* C19: handleCoordinateChange changes neither the error message nor the
\* polygons, whatever the entries; when the x or the z entry is not a
\* finite number it leaves no custom point.
C19_CoordinateChangeKeepsErrorAndPolygons ==
    [][\A x \in FieldStrings, z \in FieldStrings :
          handleCoordinateChange(x, z)
             => /\ UNCHANGED <<error, polygons>>
                /\ (~HoldsFiniteNumber(x) \/ ~HoldsFiniteNumber(z))
                      => customPoint' = Null]_vars

\* C20: on every text and in every state handleInputChange ends either with
\* the polygons read from the text and no error message, or with an error
\* message; after a failure, a text that is valid ends with no error message
\* and the polygons read from it.
C20_InputChangeSucceedsOrFails ==
    [][\A text \in MainTexts :
          handleInputChange(text)
             => LET blank == Trim(text) = <<>>
                    valid == ~blank /\ parsePolygons(text).ok
                    parsed == IF blank THEN Arr(<<>>)
                              ELSE parsePolygons(text).v
                IN  /\ \/ /\ blank \/ valid
                          /\ error' = ""
                          /\ polygons' = parsed
                       \/ error' # ""
                    /\ (error # "" /\ valid)
                          => (error' = "" /\ polygons' = parsed)]_vars

\* C20, witness: a text typed while an error was shown has been read: no
\* error is shown and the polygons are those of the text.
C20_Witness ==
    /\ args # <<>>
    /\ args[1].failed
    /\ error = ""
    /\ polygons # Arr(<<>>)
    /\ polygons = parsePolygons(inputText).v

\* A point offends when it is no object with numeric x and z of its own.
IsOffendingPoint(point) ==
    ~(/\ point.t = "object"
      /\ "x" \in DOMAIN point.v
      /\ "z" \in DOMAIN point.v
      /\ IsNumber(point.v["x"])
      /\ IsNumber(point.v["z"]))

\* The first offence of an array of polygons in document order, from
\* polygon i (counted from 0) on: [kind, i, j], kind "none" when there is
\* none, "polygon" for an element that is no array, "point" for a point.
RECURSIVE FirstOffence(_, _)
FirstOffence(parsed, i) ==
    IF i >= Len(parsed.v) THEN [kind |-> "none", i |-> 0, j |-> 0]
    ELSE IF ~IsArray(parsed.v[i + 1]) THEN [kind |-> "polygon", i |-> i, j |-> 0]
    ELSE LET bad == { j \in 1..Len(parsed.v[i + 1].v) :
                        IsOffendingPoint(parsed.v[i + 1].v[j]) }
         IN  IF bad = {} THEN FirstOffence(parsed, i + 1)
             ELSE [kind |-> "point", i |-> i,
                   j |-> (CHOOSE j \in bad : \A k \in bad : j <= k) - 1]

\* The messages that name the offence.
MessagesOf(offence) ==
    IF offence.kind = "polygon"
    THEN { "Invalid JSON format: Polygon " \o ToString(offence.i)
              \o " must be an array" }
    ELSE { "Invalid JSON format: Point " \o ToString(offence.j)
              \o " in polygon " \o ToString(offence.i) \o tail :
           tail \in { " must have x and z properties",
                      " must have numeric x and z values" } }

\* C21: when an array fails validation, the error names the first offence
\* in document order: the index of the first element that is no array, or
\* the indices of the polygon and of the first point without numeric x and
\* z.
C21_ErrorNamesFirstOffence ==
    (/\ result # <<>>
     /\ args.wellFormed
     /\ IsArray(args.value)
     /\ FirstOffence(args.value, 0).kind # "none")
       => (/\ ~result[1].ok
           /\ result[1].message \in MessagesOf(FirstOffence(args.value, 0)))

\* C22: handleInputChange of a text that is empty or all blanks leaves no
\* polygons and no error message, and fits the view box to the bounds of
\* no polygons and the custom point there is.
C22_BlankTextEmptiesAndRefits ==
    [][\A text \in MainTexts :
          (handleInputChange(text) /\ Trim(text) = <<>>)
             => /\ polygons' = Arr(<<>>)
                /\ error' = ""
                /\ viewBox' = FitOf(calculateBounds(Arr(<<>>), customPoint))
      ]_vars

\* C22, witness: blanks were typed with a custom point set: the view box
\* is the fit of that point alone.
C22_Witness ==
    /\ inputText # <<>>
    /\ Trim(inputText) = <<>>
    /\ customPoint = Obj([x |-> Num(1), z |-> Num(1)])
    /\ polygons = Arr(<<>>)
    /\ error = ""
    /\ viewBox = FitOf(calculateBounds(Arr(<<>>), customPoint))

\* The pan offset after a move of the pointer to (clientX, clientY) in a
\* drag: the delta since the anchor, scaled by (width / zoom) / surface
\* width and by (height / zoom) / surface height, is subtracted.
PannedBy(clientX, clientY) ==
    [x |-> XSub(panOffset.x,
                XMul(XSub(Int2X(clientX), dragStart.v["x"].v),
                     XDiv(XDiv(viewBox.width, zoom), Int2X(SvgWidth)))),
     y |-> XSub(panOffset.y,
                XMul(XSub(Int2X(clientY), dragStart.v["y"].v),
                     XDiv(XDiv(viewBox.height, zoom), Int2X(SvgHeight))))]

\* C23: a move of the pointer in a drag subtracts the scaled delta since
\* the anchor from the pan offset and makes the place of the pointer the
\* anchor; a move of the pointer while no drag is under way changes nothing.
C23_MoveAccumulatesScaledDelta ==
    [][\A pos \in PointerPositions :
          handleMouseMove(pos.x, pos.y)
             => IF isDragging
                THEN /\ panOffset' = PannedBy(pos.x, pos.y)
                     /\ dragStart' = Obj([x |-> Num(pos.x), y |-> Num(pos.y)])
                     /\ UNCHANGED <<viewBox, zoom, isDragging>>
                ELSE UNCHANGED compVars]_vars

\* C23, witness: a drag under way at zoom 1.5 has moved the view.
C23_Witness ==
    /\ isDragging
    /\ zoom = ZoomStep
    /\ panOffset # ZeroPan
    /\ polygons # Arr(<<>>)

\* C24: while a drag is under way the view box is not computed anew and
\* the pan offset changes by moves of the pointer only.
C24_NoRefitWhileDragging ==
    [][isDragging
          => /\ viewBox' = viewBox
             /\ panOffset' # panOffset
                   => \E pos \in PointerPositions :
                         handleMouseMove(pos.x, pos.y)]_vars

\* The rectangle padded, after the expansion of a single point, and its
\* sides.
PadRaw == DRectOf(ExpandSinglePointInt(args))
PadRawWidth == DSub(PadRaw.maxX, PadRaw.minX)
PadRawHeight == DSub(PadRaw.maxY, PadRaw.minY)

\* Every edge of the result is the edge of the raw rectangle moved outwards
\* by 0.1 times the larger side.
EdgesMovedByPadding ==
    /\ result[1].minX = DSub(PadRaw.minX, DMul(DMax(PadRawWidth, PadRawHeight), DTenth))
    /\ result[1].minY = DSub(PadRaw.minY, DMul(DMax(PadRawWidth, PadRawHeight), DTenth))
    /\ result[1].maxX = DAdd(PadRaw.maxX, DMul(DMax(PadRawWidth, PadRawHeight), DTenth))
    /\ result[1].maxY = DAdd(PadRaw.maxY, DMul(DMax(PadRawWidth, PadRawHeight), DTenth))

\* C25, as claimed: the padding of 0.1 times the larger side is applied to
\* the four edges, and the width and the height of the result are the raw
\* width and height plus 0.2 times the larger raw side.
C25_SidesGrowByFifth ==
    result # <<>>
       => /\ EdgesMovedByPadding
          /\ DSub(result[1].maxX, result[1].minX)
                = DAdd(PadRawWidth,
                       DMul(DDiv(DInt(2), DInt(10)),
                            DMax(PadRawWidth, PadRawHeight)))
          /\ DSub(result[1].maxY, result[1].minY)
                = DAdd(PadRawHeight,
                       DMul(DDiv(DInt(2), DInt(10)),
                            DMax(PadRawWidth, PadRawHeight)))

\* C25, amended: the padding of 0.1 times the larger side of the raw
\* rectangle, expanded when it is a single point, is applied to the four
\* edges.
C25_EdgesMoveByPadding == result # <<>> => EdgesMovedByPadding

\* C25, witness: a rectangle wider than high and no single point has been
\* padded.
C25_Witness ==
    /\ result # <<>>
    /\ args.maxX - args.minX > args.maxY - args.minY
    /\ args.maxY > args.minY
    /\ DLt(result[1].minY, PadRaw.minY)

\* The points with a circle to hover over: the vertices, each with the
\* index of its polygon, and the custom point, with the index -1.
HoverTargets ==
    UNION { { [point |-> polygons.v[i].v[j], index |-> i - 1] :
                j \in 1..Len(polygons.v[i].v) } : i \in 1..Len(polygons.v) }
    \cup (IF Falsy(customPoint) THEN {}
          ELSE { [point |-> customPoint, index |-> 0 - 1] })

\* C26: handlePointHover while no drag is under way shows the tooltip at the
\* place of the pointer on the surface moved by (+10, -10), and while a drag
\* is under way leaves the tooltip as it is; handlePointLeave hides the
\* tooltip and keeps its place and content.
C26_HoverShowsLeaveHides ==
    [][/\ \A pos \in PointerPositions :
            \A h \in HoverTargets :
               handlePointHover(pos.x, pos.y, h.point, h.index)
                  => IF isDragging THEN tooltip' = tooltip
                     ELSE /\ tooltip'.visible
                          /\ tooltip'.x = pos.x - SvgRect.left + 10
                          /\ tooltip'.y = pos.y - SvgRect.top - 10
       /\ handlePointLeave
             => /\ ~tooltip'.visible
                /\ tooltip'.x = tooltip.x
                /\ tooltip'.y = tooltip.y
                /\ tooltip'.content = tooltip.content]_vars

\* C26, witness: the pointer has left a vertex with no drag under way: the
\* tooltip is hidden, its place and content are those of the vertex.
C26_Witness ==
    /\ ~isDragging
    /\ dragStart = Null
    /\ ~tooltip.visible
    /\ tooltip.x = PointerStep.x + 10
    /\ tooltip.content = TooltipContent(Point(1, 2), 0)

\* C27: in each variant the circles of the vertices and of the custom point
\* are drawn with the sign of z that the bounds were computed with, so the
\* view box fitted to the bounds shows every one of them at zoom 1 and pan
\* offset {0, 0}.
C27_ViewShowsEveryCircle ==
    (result # <<>> /\ parsePolygons(TextOf(args.polygons)).ok)
       => \A pt \in AllPoints(args.polygons, args.customPoint) :
             Shows(FitOf(result[1].rect), CircleOf(pt, result[1].variant))

\* C28: in src/App.tsx, when all the points of the polygons are one point,
\* calculateBounds moves the edges 5 away from it on every side before it
\* pads, and the view box fitted has a width and a height above 0.
C28_LegacyExpandsSinglePoint ==
    (result # <<>> /\ OnePoint)
       => /\ result[1].rect
               = AddPadding(Rect(XSub(ThePoint.v["x"].v, Int2X(5)),
                                 XSub(XNeg(ThePoint.v["z"].v), Int2X(5)),
                                 XAdd(ThePoint.v["x"].v, Int2X(5)),
                                 XAdd(XNeg(ThePoint.v["z"].v), Int2X(5))))
          /\ XLt(Int2X(0), FitOf(result[1].rect).width)
          /\ XLt(Int2X(0), FitOf(result[1].rect).height)

\* C29: whenever an error message is shown there are no polygons.
C29_ErrorMeansNoPolygons == error # "" => polygons = Arr(<<>>)

\* C29, witness: an error is shown and there are no polygons, the view box
\* still being the fit of the polygon drawn before the text went wrong.
C29_Witness ==
    /\ error # ""
    /\ polygons = Arr(<<>>)
    /\ customPoint = Null
    /\ viewBox = FitOf(calculateBounds(Arr(<<Arr(<<Point(1, 2)>>)>>), Null))

\* C30: a drag is under way if and only if there is a drag anchor.
C30_DraggingIffAnchor == isDragging <=> dragStart # Null

\* C30, witness: a drag is under way, its anchor where the pointer was
\* moved to.
C30_Witness ==
    /\ isDragging
    /\ dragStart # Null
    /\ panOffset # ZeroPan

\* C31: when the input holds at least one point, a polygon point or the
\* custom point, the rectangle calculateBounds returns has a width and a
\* height above zero.
C31_BoundsHaveArea ==
    (/\ result # <<>>
     /\ result[1].variant = "direct"
     /\ AllPoints(args.polygons, args.customPoint) # {})
    => /\ XLt(Int2X(0), XSub(result[1].rect.maxX, result[1].rect.minX))
       /\ XLt(Int2X(0), XSub(result[1].rect.maxY, result[1].rect.minY))

\* C32: calculateBounds depends only on the set of points it is given: every
\* other input with the same points, in another order, grouped into other
\* polygons or with one of them as the custom point, has the same rectangle.
C32_BoundsDependOnPointSet ==
    (result # <<>> /\ result[1].variant = "direct")
    => \A other \in [polygons : BoundsPolygonSets,
                     customPoint : {Null} \cup Points] :
          AllPoints(other.polygons, other.customPoint)
              = AllPoints(args.polygons, args.customPoint)
          => calculateBounds(other.polygons, other.customPoint)
                 = result[1].rect

=============================================================================
